---- MODULE Spec2Model ----
(***************************************************************************)
(* cubeglobe-bot: the persistent posting state machine of src/main.rs.      *)
(*                                                                         *)
(* Durable storage is the state file (STATE_PATH) and one image file per    *)
(* id under IMAGES_DIR.  One process at a time runs main(), in run-forever  *)
(* or --immediate mode; it may be killed at any step and started again.     *)
(* A file is a record [exists, data]; data is the sequence of chunks        *)
(* written so far (File::create leaves <<>>, write_all appends chunk by      *)
(* chunk).                                                                  *)
(***************************************************************************)
EXTENDS Integers, Sequences, FiniteSets, TLC

\* ------------------------------------------------------------- bounds
\* ids 1..MaxId are produced; the loop stops producing beyond MaxId
MaxId == 2
\* the clock runs over 0..MaxTime
MaxTime == 3
\* a publish may fail while attempt <= MaxAttempt
MaxAttempt == 1
\* main() is started at most MaxRuns times
MaxRuns == 3
\* without crashes a publish may fail Len(DELAYS) + MaxBeyond times in a row
MaxBeyond == 1

\* ------------------------------------------------------------- constants
\* const DELAYS: &[u64] = &[30, 60, 300, 900]
DELAYS == <<30, 60, 300, 900>>

\* config.bot.sleep_time values the model runs with (seconds, scaled)
SleepTimes == {2}

\* config.bot.jitter values the model runs with (seconds, scaled)
Jitters == {0, 1}

\* the PNG byte strings generate_image + write_surface_as_png can yield
Images == {<<1>>, <<2>>}

Max(a, b) == IF a >= b THEN a ELSE b

\* ------------------------------------------------------------- Option<T>
None == [some |-> FALSE, v |-> 0]
Some(x) == [some |-> TRUE, v |-> x]
NoImage == [some |-> FALSE, v |-> <<>>]

\* ------------------------------------------------------------- files
NoFile == [exists |-> FALSE, data |-> <<>>]
\* File::create(path): creates the file or truncates it to length zero
File_create == [exists |-> TRUE, data |-> <<>>]
\* one step of write_all(buf): the next chunk of buf reaches the file
write_chunk(file, buf) ==
    [file EXCEPT !.data = Append(file.data, buf[Len(file.data) + 1])]
write_done(file, buf) == Len(file.data) = Len(buf)

\* ------------------------------------------------------------- State
\* impl Default for State
State_default == [last_post |-> None, id |-> 1, phase |-> "Awaiting"]

\* posted, forgetting to advance the id
posted_same_id(self, utcnow) ==
    [last_post |-> Some(utcnow), id |-> self.id, phase |-> "Awaiting"]

\* State::posted
posted(self, utcnow) ==
    [last_post |-> Some(utcnow), id |-> self.id + 1, phase |-> "Awaiting"]

\* State::generated
generated(self) == [self EXCEPT !.phase = "Generated"]

\* toml::to_string(self): one key/value line per field, in declaration
\* order; a None last_post is left out
to_toml(self) ==
    (IF self.last_post.some
        THEN << <<"last_post", ToString(self.last_post.v)>> >>
        ELSE << >>)
    \o << <<"id", ToString(self.id)>>, <<"phase", self.phase>> >>

HasKey(data, k) == \E i \in 1..Len(data) : data[i][1] = k
ValueOf(data, k) == data[CHOOSE i \in 1..Len(data) : data[i][1] = k][2]
IsInt(s) == \E n \in 0..(MaxTime + MaxId + 1) : ToString(n) = s
ParseInt(s) == CHOOSE n \in 0..(MaxTime + MaxId + 1) : ToString(n) = s

\* toml::from_str::<State>(s).ok(): id and phase are required, last_post is
\* optional; anything else is a parse error
from_toml(data) ==
    IF /\ HasKey(data, "id") /\ IsInt(ValueOf(data, "id"))
       /\ HasKey(data, "phase")
       /\ ValueOf(data, "phase") \in {"Awaiting", "Generated"}
       /\ (HasKey(data, "last_post") => IsInt(ValueOf(data, "last_post")))
    THEN Some([last_post |-> IF HasKey(data, "last_post")
                                THEN Some(ParseInt(ValueOf(data, "last_post")))
                                ELSE None,
               id |-> ParseInt(ValueOf(data, "id")),
               phase |-> ValueOf(data, "phase")])
    ELSE [some |-> FALSE, v |-> State_default]

\* get_state with a parser that fills in a missing phase
get_state_lenient(file) ==
    IF file.exists /\ from_toml(file.data).some
    THEN from_toml(file.data).v
    ELSE IF file.exists /\ HasKey(file.data, "id") /\ IsInt(ValueOf(file.data, "id"))
         THEN [State_default EXCEPT !.id = ParseInt(ValueOf(file.data, "id"))]
         ELSE State_default

\* State::get_state
get_state(file) ==
    IF file.exists
    THEN LET parsed == from_toml(file.data)
         IN  IF parsed.some THEN parsed.v ELSE State_default
    ELSE State_default

\* State::get_filename: the image file of self.id
get_filename(self) == self.id

\* State::get_saved_image: Err in the Awaiting phase or when the file cannot
\* be read, else the bytes the file holds now
get_saved_image(self, files) ==
    IF self.phase = "Awaiting" \/ ~files[get_filename(self)].exists
    THEN NoImage
    ELSE [some |-> TRUE, v |-> files[get_filename(self)].data]

\* slice[i] of a Rust slice (indices from 0)
Index0(slice, i) == slice[i + 1]

\* get_backoff, starting the table over once it is exhausted
get_backoff_wrapping(attempt) ==
    Index0(DELAYS, (attempt - 1) % Len(DELAYS))

\* fn get_backoff(attempt: usize) -> u64 (attempt is 1-indexed)
get_backoff(attempt) ==
    IF attempt > Len(DELAYS)
    THEN Index0(DELAYS, Len(DELAYS) - 1)
    ELSE Index0(DELAYS, attempt - 1)

\* a generator reaching one below low
gen_range_wider(low, high) == (low - 1)..(high - 1)

\* rng.gen_range(low, high): the values it can return, the half-open range
\* [low, high); it panics when the range is empty
gen_range(low, high) == low..(high - 1)

\* ------------------------------------------------------------- state
VARIABLES
    stateFile,      \* the file STATE_PATH
    images,         \* the files IMAGES_DIR/<id>.png, by id
    now,            \* the clock as last read (Utc::now), or slept up to
    config,         \* config.bot: sleep_time, jitter
    mode,           \* "none" (no process), "forever", "immediate"
    pc,             \* where main() is; "down" when no process runs
    ret,            \* which persist() call is running: "generated", "posted"
    state,          \* main's `state`
    current_image,  \* main's `current_image`
    attempt,        \* main's `attempt`
    new_image,      \* the bytes just produced (new_image / image_data)
    image_data,     \* the bytes handed to post_status
    serialized,     \* persist's `serialized`
    scheduled,      \* `scheduled`, once computed in this iteration
    actual_to_wait, \* `actual_to_wait`
    backoff,        \* `backoff`, while sleeping on it
    exit,           \* how the previous process ended
    watch,          \* which history across processes is recorded:
                    \* "publishes" (published, excused), "loads" (prevMax),
                    \* "restarts" (downImg)
                    \* or "process" (none of them)
    runs,           \* how many times main() was started
    published,      \* history: successful remote publishes, by id (up to 2)
    excused,        \* history: ids whose process ended between a successful
                    \* publish and the end of the save that follows it
    lastLoad,       \* history: what get_state returned to this process
    prevMax,        \* history: the greatest id get_state returned to the
                    \* processes before this one
    run,            \* history of this process: productions, publish
                    \* successes, publish failures since the last production
    persistOld,     \* history: the state file when the running persist began
    downImg         \* history: the image file of the durable record's id when
                    \* the previous process ended with that record Generated,
                    \* and whether that end was a kill

durable == <<stateFile, images>>
locals == <<mode, pc, ret, state, current_image, attempt, new_image,
            image_data, serialized, scheduled, actual_to_wait, backoff>>
history == <<published, excused, lastLoad, prevMax, run, persistOld, downImg>>
vars == <<durable, now, config, locals, exit, runs, watch, history>>

NoRun == [produced |-> 0, succ |-> 0, fails |-> 0]
\* lastLoad while no process has loaded anything
NoLoad == [last_post |-> None, id |-> 0, phase |-> "Awaiting"]
\* downImg while the previous process left nothing to retry
NoDown == [file |-> NoFile, killed |-> FALSE]

Boot ==
    /\ stateFile = NoFile
    /\ images = [i \in 1..MaxId |-> NoFile]
    /\ now = 0
    /\ config \in [sleep_time : SleepTimes, jitter : Jitters]
    /\ mode = "none" /\ pc = "down" /\ ret = "none"
    /\ state = State_default
    /\ current_image = NoImage
    /\ attempt = 0
    /\ new_image = <<>> /\ image_data = <<>> /\ serialized = <<>>
    /\ scheduled = None /\ actual_to_wait = 0 /\ backoff = 0
    /\ exit = "never ran"
    /\ runs = 0
    /\ published = [i \in 1..MaxId |-> 0]
    /\ excused = {}
    /\ lastLoad = NoLoad
    /\ prevMax = 0
    /\ run = NoRun
    /\ persistOld = NoFile
    /\ downImg = NoDown

Init == Boot /\ watch = "process"
InitPublishes == Boot /\ watch = "publishes"
InitLoads == Boot /\ watch = "loads"
InitRestarts == Boot /\ watch = "restarts"

\* The process is between a successful publish and the end of the save of
\* the Awaiting record that follows it: the id just published
InGap ==
    \/ pc = "post_ok"
    \/ pc \in {"persist_create", "persist_write"} /\ ret = "posted"
GapId == IF pc = "post_ok" THEN state.id ELSE state.id - 1

\* The process ends (killed, panicked in an expect, or returned from main):
\* everything in memory is gone, the files stay as they are
Terminate(how) ==
    /\ pc' = "down" /\ mode' = "none" /\ ret' = "none"
    /\ state' = State_default
    /\ current_image' = NoImage
    /\ attempt' = 0
    /\ new_image' = <<>> /\ image_data' = <<>> /\ serialized' = <<>>
    /\ scheduled' = None /\ actual_to_wait' = 0 /\ backoff' = 0
    /\ exit' = how
    /\ excused' = IF InGap /\ watch = "publishes"
                  THEN excused \cup {GapId} ELSE excused
    /\ run' = NoRun
    /\ persistOld' = NoFile
    /\ prevMax' = IF watch = "loads" THEN Max(prevMax, lastLoad.id) ELSE prevMax
    /\ lastLoad' = NoLoad
    /\ downImg' = IF watch = "restarts"
                  THEN LET left == get_state(stateFile)
                       IN  IF left.phase = "Generated"
                           THEN [file |-> images[get_filename(left)],
                                 killed |-> how = "crash"]
                           ELSE NoDown
                  ELSE NoDown
    /\ UNCHANGED <<durable, now, config, runs, watch, published>>

\* the process is killed at any point
Crash ==
    /\ pc # "down"
    /\ Terminate("crash")

\* main, up to the mode branch: state = State::get_state(); m is
\* "immediate" when --immediate is given
StartIn(m) ==
    /\ pc = "down"
    /\ runs < MaxRuns
    /\ runs' = runs + 1
    /\ mode' = m
    /\ pc' = IF m = "immediate" THEN "generate" ELSE "loop"
    /\ state' = get_state(stateFile)
    /\ current_image' = NoImage
    /\ attempt' = 0
    /\ lastLoad' = get_state(stateFile)
    /\ run' = NoRun
    /\ exit' = "running"
    /\ UNCHANGED <<durable, now, config, ret, new_image, image_data, serialized,
                   scheduled, actual_to_wait, backoff, watch, published, excused, prevMax,
                   persistOld, downImg>>

Start == \E m \in {"forever", "immediate"} : StartIn(m)

\* ------------------------------------------------------------- the loop
\* the loop producing whenever it holds no image in memory
LoopTop_regenerating ==
    /\ pc = "loop"
    /\ pc' = IF state.phase = "Awaiting" \/ ~current_image.some
             THEN IF state.last_post.some THEN "schedule" ELSE "generate"
             ELSE "reload"
    /\ UNCHANGED <<durable, now, config, mode, ret, state, current_image,
                   attempt, new_image, image_data, serialized, scheduled,
                   actual_to_wait, backoff, exit, runs, watch, history>>

\* loop { if let Phase::Awaiting = state.phase { if let Some(last_post) ...
LoopTop ==
    /\ pc = "loop"
    /\ pc' = IF state.phase = "Awaiting"
             THEN IF state.last_post.some THEN "schedule" ELSE "generate"
             ELSE "reload"
    /\ UNCHANGED <<durable, now, config, mode, ret, state, current_image,
                   attempt, new_image, image_data, serialized, scheduled,
                   actual_to_wait, backoff, exit, runs, watch, history>>

\* the due-time computation: total_to_wait, scheduled, actual_to_wait; the
\* clock is read once
Schedule ==
    /\ pc = "schedule"
    /\ gen_range(0 - config.jitter, config.jitter) # {}
    /\ \E r \in gen_range(0 - config.jitter, config.jitter), t \in now..MaxTime :
         LET total_to_wait == config.sleep_time + r
             sched == state.last_post.v + total_to_wait
         IN  /\ now' = t
             /\ scheduled' = Some(sched)
             /\ actual_to_wait' = sched - t
             /\ pc' = IF sched - t < 0 THEN "generate" ELSE "due_sleep"
    /\ UNCHANGED <<durable, config, mode, ret, state, current_image, attempt,
                   new_image, image_data, serialized, backoff, exit, runs, watch, history>>

\* gen_range panics on an empty range
SchedulePanic ==
    /\ pc = "schedule"
    /\ gen_range(0 - config.jitter, config.jitter) = {}
    /\ Terminate("Rng::gen_range called with low >= high")

\* sleep(actual_to_wait): returns once at least that long has passed
DueSleep ==
    /\ pc = "due_sleep"
    /\ \E t \in (now + actual_to_wait)..MaxTime : now' = t
    /\ pc' = "generate"
    /\ UNCHANGED <<durable, config, mode, ret, state, current_image, attempt,
                   new_image, image_data, serialized, scheduled,
                   actual_to_wait, backoff, exit, runs, watch, history>>

\* the production marking the record Generated before the image is stored
Generate_marking ==
    /\ pc = "generate"
    /\ state.id <= MaxId
    /\ \E img \in Images : new_image' = img
    /\ pc' = "img_create"
    /\ state' = generated(state)
    /\ scheduled' = None /\ actual_to_wait' = 0
    /\ run' = [run EXCEPT !.produced = @ + 1, !.fails = 0]
    /\ UNCHANGED <<durable, now, config, mode, ret, current_image,
                   attempt, image_data, serialized, backoff, exit, runs, watch, published,
                   excused, lastLoad, prevMax, persistOld, downImg>>

\* generate_image, get_filename, write_surface_as_png, optimize: the bytes
\* of a new image (both branches of main)
Generate ==
    /\ pc = "generate"
    /\ state.id <= MaxId
    /\ \E img \in Images : new_image' = img
    /\ pc' = "img_create"
    /\ scheduled' = None /\ actual_to_wait' = 0
    /\ run' = [run EXCEPT !.produced = @ + 1, !.fails = 0]
    /\ UNCHANGED <<durable, now, config, mode, ret, state, current_image,
                   attempt, image_data, serialized, backoff, exit, runs, watch, published,
                   excused, lastLoad, prevMax, persistOld, downImg>>

\* one of the expects of the production fails
GenerateFail ==
    /\ pc = "generate"
    /\ \E why \in {"Problem generating image",
                   "Failed to initalize the images subdirectory",
                   "Unable to generate png"} : Terminate(why)

\* File::create(&filename)
ImgCreate ==
    /\ pc = "img_create"
    /\ images' = [images EXCEPT ![get_filename(state)] = File_create]
    /\ pc' = "img_write"
    /\ UNCHANGED <<stateFile, now, config, mode, ret, state, current_image,
                   attempt, new_image, image_data, serialized, scheduled,
                   actual_to_wait, backoff, exit, runs, watch, history>>

\* outfile.write_all(&new_image), chunk by chunk
ImgWrite ==
    /\ pc = "img_write"
    /\ ~write_done(images[get_filename(state)], new_image)
    /\ images' = [images EXCEPT ![get_filename(state)] = write_chunk(@, new_image)]
    /\ UNCHANGED <<stateFile, now, config, locals, exit, runs, watch, history>>

\* File::create or write_all returns Err
ImgFail ==
    \/ /\ pc = "img_create"
       /\ Terminate("Unable to create image file")
    \/ /\ pc = "img_write"
       /\ ~write_done(images[get_filename(state)], new_image)
       /\ Terminate("Unable to write to file")

\* current_image = Some(new_image); state = state.generated();
\* state.persist() begins (immediate: image_data is the new image)
MarkGenerated ==
    /\ pc = "img_write"
    /\ write_done(images[get_filename(state)], new_image)
    /\ IF mode = "forever"
       THEN current_image' = [some |-> TRUE, v |-> new_image]
            /\ image_data' = image_data
       ELSE current_image' = current_image /\ image_data' = new_image
    /\ state' = generated(state)
    /\ serialized' = to_toml(generated(state))
    /\ pc' = "persist_create" /\ ret' = "generated"
    /\ new_image' = <<>>
    /\ persistOld' = stateFile
    /\ UNCHANGED <<durable, now, config, mode, attempt, scheduled,
                   actual_to_wait, backoff, exit, runs, watch, published, excused, lastLoad,
                   prevMax, run, downImg>>

\* persist: File::create(STATE_PATH)
PersistCreate ==
    /\ pc = "persist_create"
    /\ stateFile' = File_create
    /\ pc' = "persist_write"
    /\ UNCHANGED <<images, now, config, mode, ret, state, current_image,
                   attempt, new_image, image_data, serialized, scheduled,
                   actual_to_wait, backoff, exit, runs, watch, history>>

\* persist: statefile.write_all(serialized.as_bytes()), chunk by chunk
PersistWrite ==
    /\ pc = "persist_write"
    /\ ~write_done(stateFile, serialized)
    /\ stateFile' = write_chunk(stateFile, serialized)
    /\ UNCHANGED <<images, now, config, locals, exit, runs, watch, history>>

\* persist returns Err and main goes on regardless
PersistFail_ignored ==
    /\ \/ pc = "persist_create"
       \/ pc = "persist_write" /\ ~write_done(stateFile, serialized)
    /\ ~(mode = "immediate" /\ ret = "posted")
    /\ pc' = IF ret = "posted" THEN "clear"
             ELSE IF mode = "forever" THEN "reload" ELSE "posting"
    /\ ret' = "none" /\ serialized' = <<>>
    /\ persistOld' = NoFile
    /\ UNCHANGED <<durable, now, config, mode, state, current_image, attempt,
                   new_image, image_data, scheduled, actual_to_wait, backoff,
                   exit, runs, watch, published, excused, lastLoad, prevMax, run, downImg>>

\* persist returns Err: .expect("Unable to persist state")
PersistFail ==
    /\ \/ pc = "persist_create"
       \/ pc = "persist_write" /\ ~write_done(stateFile, serialized)
    /\ Terminate("Unable to persist state")

\* persist returns Ok(()) to its caller
PersistOk ==
    /\ pc = "persist_write"
    /\ write_done(stateFile, serialized)
    /\ ~(mode = "immediate" /\ ret = "posted")
    /\ pc' = IF ret = "posted" THEN "clear"
             ELSE IF mode = "forever" THEN "reload" ELSE "posting"
    /\ ret' = "none" /\ serialized' = <<>>
    /\ persistOld' = NoFile
    /\ UNCHANGED <<durable, now, config, mode, state, current_image, attempt,
                   new_image, image_data, scheduled, actual_to_wait, backoff,
                   exit, runs, watch, published, excused, lastLoad, prevMax, run, downImg>>

\* immediate mode: state.posted().persist() returned Ok, main returns
ImmediateExit ==
    /\ pc = "persist_write"
    /\ write_done(stateFile, serialized)
    /\ mode = "immediate" /\ ret = "posted"
    /\ Terminate("exit")

\* the Generated block without attempt += 1
Reload_not_counting ==
    /\ pc = "reload"
    /\ state.phase = "Generated"
    /\ IF current_image.some \/ get_saved_image(state, images).some
       THEN /\ image_data' = IF current_image.some THEN current_image.v
                             ELSE get_saved_image(state, images).v
            /\ current_image' = NoImage
            /\ pc' = "posting"
            /\ UNCHANGED <<durable, now, config, mode, ret, state, attempt, new_image,
                           serialized, scheduled, actual_to_wait, backoff,
                           exit, runs, watch, history>>
       ELSE Terminate("Wanted to retry uploading image but was unable to open its file")

\* if let Phase::Generated: image_data = current_image.unwrap_or_else(
\* get_saved_image .expect(..)); attempt += 1
Reload ==
    /\ pc = "reload"
    /\ state.phase = "Generated"
    /\ IF current_image.some \/ get_saved_image(state, images).some
       THEN /\ image_data' = IF current_image.some THEN current_image.v
                             ELSE get_saved_image(state, images).v
            /\ current_image' = NoImage
            /\ attempt' = attempt + 1
            /\ pc' = "posting"
            /\ UNCHANGED <<durable, now, config, mode, ret, state, new_image,
                           serialized, scheduled, actual_to_wait, backoff,
                           exit, runs, watch, history>>
       ELSE Terminate("Wanted to retry uploading image but was unable to open its file")

\* post_status returns Ok: the status is on the remote service
PostOk ==
    /\ pc = "posting"
    /\ published' = IF watch = "publishes"
                    THEN [published EXCEPT ![state.id] = IF @ < 2 THEN @ + 1 ELSE @]
                    ELSE published
    /\ run' = [run EXCEPT !.succ = @ + 1]
    /\ pc' = "post_ok"
    /\ UNCHANGED <<durable, now, config, mode, ret, state, current_image,
                   attempt, new_image, image_data, serialized, scheduled,
                   actual_to_wait, backoff, exit, runs, watch, excused, lastLoad, prevMax,
                   persistOld, downImg>>

\* post_status returns Err in the loop, at most `limit` times in a row
PostErrWithin(limit) ==
    /\ pc = "posting"
    /\ mode = "forever"
    /\ attempt <= limit
    /\ run' = [run EXCEPT !.fails = @ + 1]
    /\ pc' = "post_err"
    /\ UNCHANGED <<durable, now, config, mode, ret, state, current_image,
                   attempt, new_image, image_data, serialized, scheduled,
                   actual_to_wait, backoff, exit, runs, watch, published, excused,
                   lastLoad, prevMax, persistOld, downImg>>

PostErr == PostErrWithin(MaxAttempt)
PostErrLong == PostErrWithin(Len(DELAYS) + MaxBeyond)

\* immediate mode handling a publish failure as the loop does
ImmediatePostErr_retrying ==
    /\ pc = "posting"
    /\ mode = "immediate"
    /\ attempt <= MaxAttempt
    /\ attempt' = attempt + 1
    /\ pc' = "post_err"
    /\ UNCHANGED <<durable, now, config, mode, ret, state, current_image,
                   new_image, image_data, serialized, scheduled,
                   actual_to_wait, backoff, exit, runs, watch, history>>

\* immediate mode: post_status returns Err: .expect("Failed to post status")
ImmediatePostErr ==
    /\ pc = "posting"
    /\ mode = "immediate"
    /\ Terminate("Failed to post status")

\* the Ok arm leaving the attempt counter as it is
OkArm_keeping_attempt ==
    /\ pc = "post_ok"
    /\ \E t \in now..MaxTime :
         /\ now' = t
         /\ state' = posted(state, t)
         /\ serialized' = to_toml(posted(state, t))
    /\ pc' = "persist_create" /\ ret' = "posted"
    /\ persistOld' = stateFile
    /\ UNCHANGED <<durable, config, mode, current_image, attempt, new_image, image_data,
                   scheduled, actual_to_wait, backoff, exit, runs, watch, published,
                   excused, lastLoad, prevMax, run, downImg>>

\* Ok arm: attempt = 0; state = state.posted(); state.persist() begins
\* (immediate: state.posted().persist())
OkArm ==
    /\ pc = "post_ok"
    /\ \E t \in now..MaxTime :
         /\ now' = t
         /\ state' = posted(state, t)
         /\ serialized' = to_toml(posted(state, t))
    /\ attempt' = IF mode = "forever" THEN 0 ELSE attempt
    /\ pc' = "persist_create" /\ ret' = "posted"
    /\ persistOld' = stateFile
    /\ UNCHANGED <<durable, config, mode, current_image, new_image, image_data,
                   scheduled, actual_to_wait, backoff, exit, runs, watch, published,
                   excused, lastLoad, prevMax, run, downImg>>

\* the Ok arm keeping the published image in memory
Clear_keeping ==
    /\ pc = "clear"
    /\ current_image' = [some |-> TRUE, v |-> image_data]
    /\ image_data' = <<>>
    /\ pc' = "loop"
    /\ UNCHANGED <<durable, now, config, mode, ret, state, attempt, new_image,
                   serialized, scheduled, actual_to_wait, backoff, exit, runs, watch,
                   history>>

\* Ok arm, after persist: current_image = None
Clear ==
    /\ pc = "clear"
    /\ current_image' = NoImage
    /\ image_data' = <<>>
    /\ pc' = "loop"
    /\ UNCHANGED <<durable, now, config, mode, ret, state, attempt, new_image,
                   serialized, scheduled, actual_to_wait, backoff, exit, runs, watch,
                   history>>

\* the Err arm giving up as the immediate branch does
ErrArm_fatal ==
    /\ pc = "post_err"
    /\ Terminate("Failed to post status")

\* Err arm: backoff = get_backoff(attempt); sleep begins
ErrArm ==
    /\ pc = "post_err"
    /\ backoff' = get_backoff(attempt)
    /\ pc' = "backoff_sleep"
    /\ UNCHANGED <<durable, now, config, mode, ret, state, current_image,
                   attempt, new_image, image_data, serialized, scheduled,
                   actual_to_wait, exit, runs, watch, history>>

\* the Err arm forgetting the image it failed to publish
BackoffWake_dropping ==
    /\ pc = "backoff_sleep"
    /\ current_image' = NoImage
    /\ image_data' = <<>>
    /\ backoff' = 0
    /\ pc' = "loop"
    /\ UNCHANGED <<durable, now, config, mode, ret, state, attempt, new_image,
                   serialized, scheduled, actual_to_wait, exit, runs, watch, history>>

\* Err arm, after the sleep: current_image = Some(image_data)
BackoffWake ==
    /\ pc = "backoff_sleep"
    /\ current_image' = [some |-> TRUE, v |-> image_data]
    /\ image_data' = <<>>
    /\ backoff' = 0
    /\ pc' = "loop"
    /\ UNCHANGED <<durable, now, config, mode, ret, state, attempt, new_image,
                   serialized, scheduled, actual_to_wait, exit, runs, watch, history>>

Next ==
    \/ Start \/ Crash
    \/ LoopTop \/ Schedule \/ SchedulePanic \/ DueSleep
    \/ Generate \/ GenerateFail \/ ImgCreate \/ ImgWrite \/ ImgFail
    \/ MarkGenerated
    \/ PersistCreate \/ PersistWrite \/ PersistFail \/ PersistOk
    \/ ImmediateExit
    \/ Reload
    \/ PostOk \/ PostErr \/ ImmediatePostErr
    \/ OkArm \/ Clear \/ ErrArm \/ BackoffWake

\* one process after another, in either mode, killed at any point
Spec == Init /\ [][Next]_vars

\* the same, recording one history across processes
SpecPublishes == InitPublishes /\ [][Next]_vars
SpecLoads == InitLoads /\ [][Next]_vars
SpecRestarts == InitRestarts /\ [][Next]_vars

\* the run-forever loop without crashes and without storage failures
NextLoop ==
    \/ StartIn("forever")
    \/ LoopTop \/ Schedule \/ SchedulePanic \/ DueSleep
    \/ Generate \/ ImgCreate \/ ImgWrite \/ MarkGenerated
    \/ PersistCreate \/ PersistWrite \/ PersistOk
    \/ Reload
    \/ PostOk \/ PostErrLong
    \/ OkArm \/ Clear \/ ErrArm \/ BackoffWake

SpecLoop == Init /\ [][NextLoop]_vars

\* the same loop, running: the process keeps taking its next step, every
\* sleep returns, and post_status, called again and again, does not fail
\* forever
SpecLive ==
    /\ Init /\ [][NextLoop]_vars
    /\ WF_vars(NextLoop)
    /\ SF_vars(PostOk)

\* ------------------------------------------------------------- claims

\* C2: in the run-forever loop without crashes the id of the record is the
\* id loaded at start plus the number of successful publishes: a production
\* and any number of publish failures leave it unchanged, a success adds
\* exactly one (the Ok arm runs right after post_status returns); once the
\* Ok arm has persisted, the record on disk is {now, id, Awaiting}.
C2_IdPlusOnePerSuccess ==
    mode = "forever" =>
        /\ pc # "post_ok" => state.id = lastLoad.id + run.succ
        /\ pc = "post_ok" => state.id + 1 = lastLoad.id + run.succ
        /\ pc = "clear" =>
             /\ state.phase = "Awaiting"
             /\ state.last_post = Some(now)
             /\ get_state(stateFile) = state

\* C2 witness: from the default record, a production, two failures and a
\* success end at {now, 2, Awaiting}
C2_Witness ==
    /\ mode = "forever" /\ pc = "clear"
    /\ lastLoad = State_default
    /\ run = [produced |-> 1, succ |-> 1, fails |-> 2]
    /\ state = [last_post |-> Some(now), id |-> 2, phase |-> "Awaiting"]
    /\ get_state(stateFile) = state

\* C9: the backoff slept after the n-th failed attempt in a row is the n-th
\* entry of the table (DELAYS[n-1] counting from 0), and the last entry
\* beyond the table; so it never decreases with n and never exceeds the
\* last entry.
C9_BackoffTable ==
    /\ pc = "backoff_sleep" =>
         /\ attempt >= 1
         /\ backoff = IF attempt <= Len(DELAYS) THEN DELAYS[attempt]
                      ELSE DELAYS[Len(DELAYS)]
    /\ \A n \in 1..(Len(DELAYS) + MaxBeyond) :
         /\ get_backoff(n) <= get_backoff(n + 1)
         /\ get_backoff(n) <= DELAYS[Len(DELAYS)]

\* C9 witness: the first attempt beyond the table sleeps the last entry
C9_Witness ==
    /\ pc = "backoff_sleep"
    /\ attempt = Len(DELAYS) + 1
    /\ backoff = 900

\* C10 as claimed: with last_post = T present the loop always computes a
\* scheduled instant within [T+I-J, T+I+J], for J = 0 too (gen_range does
\* not panic), and then sleeps scheduled - now or proceeds when that is
\* negative; with last_post absent nothing is scheduled and nothing slept.
C10_Claim ==
    /\ exit # "Rng::gen_range called with low >= high"
    /\ (mode = "forever" /\ pc \in {"due_sleep", "generate"}) =>
         IF state.last_post.some
         THEN /\ scheduled.some
              /\ scheduled.v >= state.last_post.v + config.sleep_time - config.jitter
              /\ scheduled.v <= state.last_post.v + config.sleep_time + config.jitter
              /\ pc = "due_sleep" =>
                   actual_to_wait >= 0 /\ actual_to_wait = scheduled.v - now
              /\ pc = "generate" => now >= scheduled.v
         ELSE scheduled = None /\ pc = "generate"

\* the records a state file can hold
Records ==
    [last_post : {None} \cup {Some(t) : t \in 0..MaxTime},
     id : 0..(MaxId + 1),
     phase : {"Awaiting", "Generated"}]
IsRecordFile(file) ==
    file.exists /\ \E r \in Records : file.data = to_toml(r)

\* C8: starting main (get_state) leaves every file as it is, and when the
\* state file is absent or is not a complete serialized record the record
\* loaded is the default {None, 1, Awaiting}.
C8_LoadNeverFails ==
    [][(pc = "down" /\ pc' # "down") =>
         /\ durable' = durable
         /\ ~IsRecordFile(stateFile) => state' = State_default]_vars

\* C8 witness: the second process in a row loads the default record from a
\* state file that is still missing
C8_Witness ==
    /\ runs = 2 /\ pc = "loop"
    /\ ~stateFile.exists
    /\ state = State_default /\ lastLoad = State_default

C7_Claim ==
    pc \in {"img_create", "img_write"} => state.phase = "Awaiting"

\* C5 as claimed: whenever the state file holds a Generated record, the
\* image file of its id exists and holds a complete image.
C5_Claim ==
    (IsRecordFile(stateFile) /\ get_state(stateFile).phase = "Generated") =>
        /\ images[get_filename(get_state(stateFile))].exists
        /\ images[get_filename(get_state(stateFile))].data \in Images

\* C4 as claimed: at every step of persist a reader of the state file loads
\* either the record it held when persist began or the record being saved.
C4_Claim ==
    pc \in {"persist_create", "persist_write"} =>
        get_state(stateFile) \in {get_state(persistOld), state}

\* C3 as claimed: the id a process loads is at least every id loaded by the
\* processes before it.
C3_Claim ==
    pc # "down" => lastLoad.id >= prevMax

\* C1 as claimed: an id is published successfully twice only if a process
\* ended between a successful publish of that id and the end of the save
\* of the Awaiting record that follows it; a process that ends anywhere
\* else, a later save included, causes no second publish of an id.
C1_Claim ==
    \A k \in 1..MaxId : published[k] >= 2 => k \in excused

\* the places of main's immediate branch
ImmediatePcs ==
    {"generate", "img_create", "img_write", "persist_create", "persist_write",
     "posting", "post_ok"}

\* C11: an --immediate process is only ever in the immediate branch, where
\* nothing sleeps (no due-time wait, no backoff) and post_status is called
\* once at most; when that call fails the process ends at once, and the
\* state file holds the complete record it loaded, marked Generated, id and
\* last_post as loaded.
C11_ImmediateOneShot ==
    [][/\ mode' = "immediate" =>
            /\ pc' \in ImmediatePcs
            /\ backoff' = 0 /\ scheduled' = None /\ actual_to_wait' = 0
            /\ attempt' = 0
            /\ run'.fails = 0 /\ run'.succ <= 1
            /\ pc' = "posting" => run'.succ = 0
            /\ (mode = "immediate" /\ pc # "post_ok") => now' = now
       /\ (mode = "immediate" /\ pc = "posting" /\ pc' # "post_ok") =>
            /\ pc' = "down"
            /\ durable' = durable
            /\ IsRecordFile(stateFile)
            /\ get_state(stateFile) = generated(lastLoad)]_vars

\* C11 witness: an --immediate process has ended on a failed publish and
\* the state file holds a Generated record
C11_Witness ==
    /\ pc = "down" /\ exit = "Failed to post status"
    /\ IsRecordFile(stateFile)
    /\ get_state(stateFile).phase = "Generated"
    /\ images[get_filename(get_state(stateFile))].data \in Images

\* the expects of the production: generation, encoding, image file write
ProductionFailures ==
    {"Problem generating image", "Failed to initalize the images subdirectory",
     "Unable to generate png", "Unable to create image file",
     "Unable to write to file"}

\* C12: when a step of the production fails while the state file gives an
\* Awaiting record, the process was still in the production (before any
\* publish), it ends at once, and the state file is left as it was, giving
\* the same Awaiting record that the process held in memory.
C12_ProductionFailureLeavesAwaiting ==
    [][(exit' \in ProductionFailures /\ pc # "down"
          /\ get_state(stateFile).phase = "Awaiting") =>
            /\ pc \in {"generate", "img_create", "img_write"}
            /\ pc' = "down"
            /\ stateFile' = stateFile
            /\ state = get_state(stateFile)]_vars

\* C12 witness: the image write of id 2 failed after id 1 was published; the
\* state file still holds {t, 2, Awaiting}
C12_Witness ==
    /\ pc = "down" /\ exit = "Unable to write to file"
    /\ IsRecordFile(stateFile)
    /\ get_state(stateFile).phase = "Awaiting"
    /\ get_state(stateFile).id = 2
    /\ get_state(stateFile).last_post.some
    /\ images[2] = File_create

\* C13: in the running loop, whenever the record is Generated with id k it
\* later is Awaiting with id k + 1, in memory and in the state file, however
\* many publish attempts fail in between.
C13_GeneratedLeadsToPosted ==
    \A k \in 1..MaxId :
        (mode = "forever" /\ state.phase = "Generated" /\ state.id = k)
            ~> (/\ mode = "forever"
                /\ state.phase = "Awaiting" /\ state.id = k + 1
                /\ get_state(stateFile) = state)

\* C13 witness: the publish succeeded after failing through the whole table
\* and beyond, and the record is saved as Awaiting with the next id
C13_Witness ==
    /\ mode = "forever" /\ pc = "clear"
    /\ run.fails = Len(DELAYS) + MaxBeyond
    /\ run.succ >= 1
    /\ state.phase = "Awaiting" /\ state.id = lastLoad.id + run.succ
    /\ IsRecordFile(stateFile) /\ get_state(stateFile) = state

\* C14: whenever post_status is about to be called, in either mode, the
\* state file holds a complete record, equal to the record in memory, whose
\* phase is Generated (so its id is the one being published); and a persist
\* of the Generated record that has not written the whole record is never
\* followed by anything but the rest of the write or the end of the process.
C14_DurableBeforePublish ==
    [][/\ pc' = "posting" =>
            /\ IsRecordFile(stateFile')
            /\ get_state(stateFile') = state'
            /\ state'.phase = "Generated"
            /\ ret' = "none"
       /\ (ret = "generated" /\ (\/ pc = "persist_create"
                                 \/ pc = "persist_write"
                                    /\ ~write_done(stateFile, serialized))) =>
            pc' \in {"persist_write", "down"}
       /\ (ret = "generated" /\ exit' = "Unable to persist state") =>
            pc' = "down"]_vars

\* C14 witness: post_status is being called by an --immediate process for
\* id 2, the Generated record of id 2 saved
C14_Witness ==
    /\ mode = "immediate" /\ pc = "posting"
    /\ state.phase = "Generated" /\ state.id = 2
    /\ IsRecordFile(stateFile) /\ get_state(stateFile) = state

\* the image the loop holds in memory: image_data from the reload until the
\* end of the Err arm, current_image elsewhere
Held ==
    IF pc \in {"posting", "post_err", "backoff_sleep"}
    THEN Some(image_data) ELSE current_image

\* C15: from a failed post_status until the next call of post_status the
\* record in memory and every file stay as they are and the image held in
\* memory stays the same, so the next call submits the bytes of the failed
\* one; attempt grows by exactly one per call, being the number of failed
\* calls for this image when the Err arm runs, and the Err arm sleeps
\* get_backoff of that attempt.
C15_FailureFrame ==
    [][(mode = "forever" /\ pc' # "down") =>
         /\ (pc = "posting" /\ pc' = "post_err") \/
            (pc \in {"post_err", "backoff_sleep"}) \/
            (pc \in {"loop", "reload"} /\ state.phase = "Generated"
                                       /\ current_image.some) =>
              /\ state' = state /\ durable' = durable
              /\ state.phase = "Generated"
              /\ Held' = Held
              /\ pc' \notin {"persist_create", "persist_write"}
         /\ (pc = "reload" /\ pc' = "posting") => attempt' = attempt + 1
         /\ pc # "reload" => attempt' = attempt \/ (pc = "post_ok" /\ attempt' = 0)
         /\ pc = "post_err" =>
              /\ attempt = run.fails /\ attempt >= 1
              /\ pc' = "backoff_sleep" /\ backoff' = get_backoff(attempt)]_vars

\* C15 witness: post_status is called again after one failure, with
\* attempt 2 and the image the failed call had
C15_Witness ==
    /\ mode = "forever" /\ pc = "posting"
    /\ attempt = 2 /\ run.fails = 1
    /\ state.phase = "Generated"
    /\ image_data \in Images
    /\ image_data = images[get_filename(state)].data
    /\ get_state(stateFile) = state

\* C16: in the loop, once the Ok arm is through (the loop is back at its
\* top with an Awaiting record) the record is {last_post, id, Awaiting} as
\* saved in the state file, with id the loaded id plus the successes,
\* attempt is 0 and no image is held in memory; from the Ok arm's
\* posted() on, attempt is 0 and the record is Awaiting with last_post the
\* clock read there; and the first failed publish of any image produced by
\* this process sleeps the first entry of DELAYS.
C16_SuccessResets ==
    mode = "forever" =>
        /\ (pc \in {"persist_create", "persist_write", "clear"}
                /\ ret \in {"posted", "none"} /\ state.phase = "Awaiting") =>
             /\ attempt = 0
             /\ state.last_post = Some(now)
             /\ state.id = lastLoad.id + run.succ
             /\ pc = "clear" => get_state(stateFile) = state
        /\ (pc = "loop" /\ state.phase = "Awaiting") =>
             /\ attempt = 0
             /\ current_image = NoImage
             /\ get_state(stateFile) = state
        /\ (pc = "backoff_sleep" /\ run.produced >= 1 /\ run.fails = 1) =>
             /\ attempt = 1
             /\ backoff = Index0(DELAYS, 0)

\* C16 witness: the second image of this process fails to publish for the
\* first time, after the first image was published, and the loop sleeps 30
C16_Witness ==
    /\ mode = "forever" /\ pc = "backoff_sleep"
    /\ run = [produced |-> 2, succ |-> 1, fails |-> 1]
    /\ state.id = 2 /\ state.phase = "Generated"
    /\ attempt = 1
    /\ backoff = 30

\* C17 as claimed: when the sleep until the scheduled instant returns, the
\* loop does not go on to the production directly (it evaluates the due
\* time again first).
C17_Claim ==
    [][(pc = "due_sleep" /\ pc' \notin {"due_sleep", "down"}) =>
          pc' # "generate"]_vars

\* C18: in the loop, an image in current_image goes with a Generated record
\* and equals what the image file of the record's id holds; at the top of
\* the loop with an Awaiting record current_image is None; and the bytes
\* handed to post_status, from memory or read back, equal what the image
\* file of the record's id holds.
C18_CacheCoherence ==
    mode = "forever" =>
        /\ current_image.some =>
             /\ state.phase = "Generated"
             /\ images[get_filename(state)].exists
             /\ current_image.v = images[get_filename(state)].data
        /\ (pc = "loop" /\ state.phase = "Awaiting") => current_image = NoImage
        /\ pc \in {"posting", "post_err", "backoff_sleep"} =>
             /\ state.phase = "Generated"
             /\ images[get_filename(state)].exists
             /\ image_data = images[get_filename(state)].data

\* C18 witness: back at the top of the loop after a failed publish, the
\* image kept in memory is the stored image of the record's id
C18_Witness ==
    /\ mode = "forever" /\ pc = "loop"
    /\ state.phase = "Generated"
    /\ current_image.some /\ current_image.v \in Images
    /\ current_image.v = images[get_filename(state)].data
    /\ run.fails = 1

\* C19: in the loop, with last_post = T in the record, the production is
\* not entered, and does not run, before T + sleep_time - jitter on the
\* clock, also in a process started again on an Awaiting record.
C19_Spacing ==
    (/\ mode = "forever"
     /\ pc \in {"generate", "img_create", "img_write"}
     /\ state.last_post.some) =>
        /\ state.phase = "Awaiting"
        /\ now >= state.last_post.v + config.sleep_time - config.jitter

\* C19 witness: a process started on an Awaiting record with last_post = T
\* has begun the production at the earliest instant, T + sleep_time - jitter
C19_Witness ==
    /\ mode = "forever" /\ pc = "img_create"
    /\ runs >= 2 /\ run.succ = 0
    /\ lastLoad.phase = "Awaiting" /\ lastLoad.last_post.some
    /\ state = lastLoad
    /\ config.jitter = 1
    /\ now = state.last_post.v + config.sleep_time - config.jitter

\* C20: in the loop get_backoff is only called (the Err arm entered) with
\* attempt >= 1, so that the index it uses, attempt - 1 or the last one
\* beyond the table, is an index of DELAYS.
C20_BackoffPrecondition ==
    (mode = "forever" /\ pc = "post_err") =>
        /\ attempt >= 1
        /\ LET index == IF attempt > Len(DELAYS) THEN Len(DELAYS) - 1
                        ELSE attempt - 1
           IN  index \in 0..(Len(DELAYS) - 1)

\* C20 witness: the Err arm is entered with attempt = 1 by a process that
\* has published before (attempt was reset to 0 by the success)
C20_Witness ==
    /\ mode = "forever" /\ pc = "post_err"
    /\ attempt = 1
    /\ run.succ = 1

====
